---- MODULE Spec2Model ----
(***************************************************************************)
(* Model of the mesh benchmark harness (mesh_bench_harness.py) and of the  *)
(* Spade command-line adapter (adapter_spade.py).                          *)
(*                                                                         *)
(* Two specifications share the module:                                    *)
(*   Spec   main(): argument parsing, the battery A, B, C, D-sweep, with   *)
(*          run_benchmark, the adapter call, write_vtu,                    *)
(*          compute_mesh_quality and the report files;                     *)
(*   SpecQ  compute_mesh_quality(), one step per iteration of its loop     *)
(*          over the triangles, on meshes drawn from a lattice.            *)
(*                                                                         *)
(* Numbers.  Coordinates are lattice integers.  A length is carried by its *)
(* square (l > 0 iff l*l > 0, max by squares), an angle by its cosine      *)
(* (sign and squared magnitude, arccos being decreasing), an area and an   *)
(* aspect ratio by an exact fraction; +infinity is a value of its own.     *)
(***************************************************************************)
EXTENDS Integers, Sequences, FiniteSets, TLC

\* ---- bounds of the model ------------------------------------------------
GridMax    == 2     \* lattice x-coordinates 0..GridMax, y-coordinates 0..1
MaxPoints  == 4     \* longest point sequence of a mesh given to SpecQ
MaxTris    == 2     \* most triangles of a mesh given to SpecQ
MaxRepeats == 2     \* largest --repeats value
MaxElapsed == 1     \* elapsed times of one adapter call are 0..MaxElapsed
MaxSizes   == 2     \* longest --sizes list

\* An optional value (Python None, or a key absent from a dict) is the empty
\* sequence; a present value v is <<v>>.  A tuple is a sequence.
None == <<>>

VARIABLES
    \* ---- main() and run_benchmark() ----
    pc,               \* position in main()
    argv,             \* the command line: [repeats, sizes (strings)]
    args,             \* argparse's result: [repeats, sizes (floats)]
    scen,             \* 1 = A, 2 = B, 3 = C, 3 + i = i-th element of the sweep
    rep,              \* iterations of run_benchmark's loop done so far
    best_time,        \* run_benchmark's local
    best_result,      \* run_benchmark's local
    mesh,             \* (points, triangles, lines) as unpacked in main()
    t,                \* the elapsed time returned to main()
    quality,          \* the dict returned by compute_mesh_quality to main()
    results,          \* main()'s list
    quality_metrics,  \* main()'s list
    files,            \* every file write so far, in order
    exc,              \* the exception that left main(), "" while there is none
    rbLog,            \* history: the adapter calls of the current run_benchmark
                      \*          (recorded only when probe is TRUE)
    calls,            \* history: number of adapter calls started
    failure,          \* history: where an adapter call failed, or None
    probe,            \* TRUE when the adapter calls are being recorded in rbLog
    \* ---- compute_mesh_quality() ----
    qpc,              \* "idle", "loop", "returned", "IndexError"
    points,           \* the points argument
    numTris,          \* len(triangles)
    ti,               \* triangles consumed by the for loop
    areas, min_angles, aspect_ratios,
    report,           \* the returned dict, or None
    seen              \* history: what each consumed triangle was like

mainVars == <<pc, argv, args, scen, rep, best_time, best_result, mesh, t, quality,
              results, quality_metrics, files, exc, rbLog, calls, failure, probe>>
qVars    == <<qpc, points, numTris, ti, areas, min_angles, aspect_ratios, report, seen>>
vars     == <<mainVars, qVars>>

\* =========================================================================
\* Geometry of one triangle (compute_mesh_quality, loop body)
\* =========================================================================

Abs(x)      == IF x < 0 THEN -x ELSE x
Sign(x)     == IF x < 0 THEN -1 ELSE IF x > 0 THEN 1 ELSE 0
Max3(a,b,c) == IF a >= b /\ a >= c THEN a ELSE IF b >= c THEN b ELSE c

\* p - q on numpy rows (x, y, z)
Sub(p, q) == <<p[1] - q[1], p[2] - q[2], p[3] - q[3]>>

\* np.linalg.norm(e), squared
NormSq(e) == e[1] * e[1] + e[2] * e[2] + e[3] * e[3]

\* numpy raises IndexError for index i on an axis of length n unless -n <= i < n
IndexRaises(n, i) == i >= n \/ i < -n

\* the row points_np[i] (0-based, negative indices count from the end)
Row(pts, i) == pts[(IF i < 0 THEN i + Len(pts) ELSE i) + 1]

TriRaises(pts, tri) == \E k \in 1..3 : IndexRaises(Len(pts), tri[k])

\* 2 * area: abs(e0[0] * (-e2[1]) - e0[1] * (-e2[0]))
Cross(e0, e2) == Abs(e0[1] * (-e2[2]) - e0[2] * (-e2[1]))

\* np.clip((a^2 + b^2 - c^2) / (2 a b), -1, 1), as the cosine of the angle
\* between the edges of squared lengths asq and bsq, opposite the edge csq
ClippedCos(asq, bsq, csq) ==
    LET n == asq + bsq - csq
        d == 4 * asq * bsq
    IN  [sgn |-> Sign(n), num |-> IF n * n > d THEN d ELSE n * n, den |-> d]

\* cosine c1 < cosine c2
CosLess(c1, c2) ==
    IF c1.sgn # c2.sgn THEN c1.sgn < c2.sgn
    ELSE IF c1.sgn = 1  THEN c1.num * c2.den < c2.num * c1.den
    ELSE IF c1.sgn = -1 THEN c1.num * c2.den > c2.num * c1.den
    ELSE FALSE

\* min(angle0, angle1, angle2): the first angle no other is smaller than
\* (an angle is smaller iff its cosine is larger)
MinAngle(a0, a1, a2) ==
    IF ~CosLess(a0, a1) /\ ~CosLess(a0, a2) THEN a0
    ELSE IF ~CosLess(a1, a2) THEN a1 ELSE a2

\* max_edge / min_altitude if min_altitude > 0 else float('inf'),
\* with min_altitude = 2 * area / max_edge
AspectRatio(maxsq, cross) ==
    IF cross > 0 THEN [inf |-> FALSE, num |-> maxsq, den |-> cross]
    ELSE [inf |-> TRUE, num |-> 0, den |-> 1]

\* (a slip: "or" for "and")
AllEdgesPositive_AnyEdge(l0sq, l1sq, l2sq) == l0sq > 0 \/ l1sq > 0 \/ l2sq > 0

\* if l0 > 0 and l1 > 0 and l2 > 0
AllEdgesPositive(l0sq, l1sq, l2sq) == l0sq > 0 /\ l1sq > 0 /\ l2sq > 0

\* One iteration of "for tri in triangles_np" on a triangle whose indexing does
\* not raise: what it appends to areas, min_angles and aspect_ratios.
TriMetrics(pts, tri) ==
    LET p0 == Row(pts, tri[1])
        p1 == Row(pts, tri[2])
        p2 == Row(pts, tri[3])
        e0 == Sub(p1, p0)
        e1 == Sub(p2, p1)
        e2 == Sub(p0, p2)
        l0 == NormSq(e0)
        l1 == NormSq(e1)
        l2 == NormSq(e2)
        cross == Cross(e0, e2)
        inIf  == AllEdgesPositive(l0, l1, l2)
    IN  [area   |-> <<<<cross, 2>>>>,
         angle  |-> IF inIf
                    THEN <<MinAngle(ClippedCos(l0, l2, l1), ClippedCos(l0, l1, l2),
                                    ClippedCos(l1, l2, l0))>>
                    ELSE <<>>,
         aspect |-> IF inIf THEN <<AspectRatio(Max3(l0, l1, l2), cross)>> ELSE <<>>]

\* ---- histograms ---------------------------------------------------------

\* angle_bins = [0, 10, 20, 30, 40, 50, 60, 90], each edge by its cosine:
\* cos^2 of the edge in millionths (cos 0 = 1, cos 90 = 0)
angle_bins == <<0, 10, 20, 30, 40, 50, 60, 90>>
CosSqMillionths(deg) ==
    CASE deg = 0  -> 1000000 [] deg = 10 -> 969846 [] deg = 20 -> 883022
      [] deg = 30 -> 750000  [] deg = 40 -> 586824 [] deg = 50 -> 413176
      [] deg = 60 -> 250000  [] deg = 90 -> 0
AngleEdge(deg) ==
    [sgn |-> IF deg = 90 THEN 0 ELSE 1, num |-> CosSqMillionths(deg), den |-> 1000000]

\* angle a <= angle b  iff  cos b <= cos a
AngleLE(a, b) == ~CosLess(a, b)
AngleLT(a, b) == CosLess(b, a)

\* ar_bins = [1, 2, 5, 10, 20, 50, 100, np.inf]
ar_bins == <<[inf |-> FALSE, num |-> 1,   den |-> 1], [inf |-> FALSE, num |-> 2,  den |-> 1],
             [inf |-> FALSE, num |-> 5,   den |-> 1], [inf |-> FALSE, num |-> 10, den |-> 1],
             [inf |-> FALSE, num |-> 20,  den |-> 1], [inf |-> FALSE, num |-> 50, den |-> 1],
             [inf |-> FALSE, num |-> 100, den |-> 1], [inf |-> TRUE,  num |-> 0,  den |-> 1]>>

RatioLE(a, b) ==
    IF a.inf THEN b.inf ELSE IF b.inf THEN TRUE ELSE a.num * b.den <= b.num * a.den
RatioLT(a, b) == RatioLE(a, b) /\ ~RatioLE(b, a)

\* (a slip: every bin right-open, the last one too)
InBin_AllRightOpen(i, nbins, geLo, ltHi, leHi) == geLo /\ ltHi

\* np.histogram's rule for bin i of nbins: lo <= v < hi, and lo <= v <= hi for
\* the last bin.  geLo, ltHi, leHi are the three comparisons of v.
InBin(i, nbins, geLo, ltHi, leHi) == geLo /\ (IF i = nbins THEN leHi ELSE ltHi)

\* angle_hist, _ = np.histogram(min_angles_np, bins=angle_bins)
AngleHist(vals) ==
    [i \in 1..(Len(angle_bins) - 1) |->
        Cardinality({k \in DOMAIN vals :
            InBin(i, Len(angle_bins) - 1,
                  AngleLE(AngleEdge(angle_bins[i]), vals[k]),
                  AngleLT(vals[k], AngleEdge(angle_bins[i + 1])),
                  AngleLE(vals[k], AngleEdge(angle_bins[i + 1])))})]

\* ar_hist, _ = np.histogram(aspect_ratios_np, bins=ar_bins)
ArHist(vals) ==
    [i \in 1..(Len(ar_bins) - 1) |->
        Cardinality({k \in DOMAIN vals :
            InBin(i, Len(ar_bins) - 1,
                  RatioLE(ar_bins[i], vals[k]),
                  RatioLT(vals[k], ar_bins[i + 1]),
                  RatioLE(vals[k], ar_bins[i + 1]))})]

RECURSIVE SumNum(_)
SumNum(s) == IF s = <<>> THEN 0 ELSE s[1][1] + SumNum(Tail(s))

\* The dict compute_mesh_quality returns (count, total area and the two
\* distributions; the min/max/mean/median entries are not modelled).
QualityReport(n, as, angs, ars) ==
    [num_triangles |-> n,
     total_area    |-> <<SumNum(as), 2>>,
     angle_dist    |-> AngleHist(angs),
     ar_dist       |-> ArHist(ars)]

\* compute_mesh_quality(points, triangles) as a whole: the loop over the
\* triangles in order, then the report; an IndexError leaves the loop.
RECURSIVE QualityLoop(_, _, _, _, _, _)
QualityLoop(pts, tris, k, as, angs, ars) ==
    IF k > Len(tris) THEN [raised |-> FALSE,
                           report |-> <<QualityReport(Len(tris), as, angs, ars)>>]
    ELSE IF TriRaises(pts, tris[k]) THEN [raised |-> TRUE, report |-> None]
    ELSE LET m == TriMetrics(pts, tris[k])
         IN  QualityLoop(pts, tris, k + 1, as \o m.area, angs \o m.angle, ars \o m.aspect)

compute_mesh_quality(pts, tris) == QualityLoop(pts, tris, 1, <<>>, <<>>, <<>>)

\* =========================================================================
\* SpecQ: compute_mesh_quality step by step
\* =========================================================================

\* The lattice (0..GridMax) x (0..1) at z = 0.0, row by row.
LatticeWidth == GridMax + 1
Lattice == [k \in 1..(2 * LatticeWidth) |->
               <<(k - 1) % LatticeWidth, (k - 1) \div LatticeWidth, 0>>]

\* The point sequences offered to compute_mesh_quality: the first n lattice
\* points (distinct; three in a row are collinear), and the same with the
\* first point stored twice (two indices, one location).
PointLists ==
    {SubSeq(Lattice, 1, n) : n \in 0..MaxPoints} \cup
    {SubSeq(<<Lattice[1]>> \o Lattice, 1, n) : n \in 0..MaxPoints}

\* triangle indices offered by a mesh: in bounds, negative, and past either end
Idx == (-(MaxPoints + 1))..MaxPoints
IdxTriples == Idx \X Idx \X Idx

\* main() is not running under SpecQ
MainIdle ==
    /\ pc = "idle" /\ argv = None /\ args = None /\ scen = 0 /\ rep = 0
    /\ best_time = None /\ best_result = None /\ mesh = None /\ t = None
    /\ quality = None /\ results = <<>> /\ quality_metrics = <<>> /\ files = <<>>
    /\ exc = "" /\ rbLog = <<>> /\ calls = 0 /\ failure = None /\ probe = FALSE

\* compute_mesh_quality is not running on its own under Spec
QIdle ==
    /\ qpc = "idle" /\ points = <<>> /\ numTris = 0 /\ ti = 0
    /\ areas = <<>> /\ min_angles = <<>> /\ aspect_ratios = <<>>
    /\ report = None /\ seen = <<>>

\* The state at the head of the loop: the three lists are empty.  The
\* triangles are read once each, in order; the model draws each one when the
\* loop reaches it and keeps len(triangles) from the start.
InitQ ==
    /\ MainIdle
    /\ qpc = "loop"
    /\ points \in PointLists
    /\ numTris \in 0..MaxTris
    /\ ti = 0
    /\ areas = <<>> /\ min_angles = <<>> /\ aspect_ratios = <<>>
    /\ report = None
    /\ seen = <<>>

\* what the triangle read at this iteration is, by its indices and vertices
\* alone (history; not part of the program)
Describe(pts, tri) ==
    LET n    == Len(pts)
        oob  == \E k \in 1..3 : tri[k] < 0 \/ tri[k] >= n
        ok   == ~TriRaises(pts, tri)
        a    == Row(pts, tri[1])
        b    == Row(pts, tri[2])
        c    == Row(pts, tri[3])
    IN  [oob      |-> oob,
         negative |-> \E k \in 1..3 : tri[k] < 0,
         raised   |-> ~ok,
         zeroEdge |-> ok /\ (a = b \/ b = c \/ c = a),
         zeroArea |-> ok /\ (b[1] - a[1]) * (c[2] - a[2]) = (b[2] - a[2]) * (c[1] - a[1])]

\* one iteration of the loop whose indexing succeeds
QIterate ==
    /\ qpc = "loop" /\ ti < numTris
    /\ \E tri \in IdxTriples :
         /\ ~TriRaises(points, tri)
         /\ LET m == TriMetrics(points, tri)
            IN  /\ areas' = areas \o m.area
                /\ min_angles' = min_angles \o m.angle
                /\ aspect_ratios' = aspect_ratios \o m.aspect
         /\ seen' = Append(seen, Describe(points, tri))
    /\ ti' = ti + 1
    /\ UNCHANGED <<qpc, points, numTris, report, mainVars>>

\* an iteration whose indexing raises IndexError: the function is left
QIndexError ==
    /\ qpc = "loop" /\ ti < numTris
    /\ \E tri \in IdxTriples :
         /\ TriRaises(points, tri)
         /\ seen' = Append(seen, Describe(points, tri))
    /\ qpc' = "IndexError"
    /\ UNCHANGED <<points, numTris, ti, areas, min_angles, aspect_ratios, report, mainVars>>

\* the loop is exhausted: histograms and the returned dict
QReturn ==
    /\ qpc = "loop" /\ ti = numTris
    /\ report' = <<QualityReport(numTris, areas, min_angles, aspect_ratios)>>
    /\ qpc' = "returned"
    /\ UNCHANGED <<points, numTris, ti, areas, min_angles, aspect_ratios, seen, mainVars>>

NextQ == QIterate \/ QIndexError \/ QReturn

SpecQ == InitQ /\ [][NextQ]_vars

\* ---- properties of compute_mesh_quality ---------------------------------

RECURSIVE SumTo(_, _)
SumTo(f, n) == IF n = 0 THEN 0 ELSE f[n] + SumTo(f, n - 1)
HistTotal(h) == SumTo(h, Len(h))

InBounds     == \A k \in DOMAIN seen : ~seen[k].oob
ZeroEdgeTris == {k \in DOMAIN seen : seen[k].zeroEdge}
ZeroAreaTris == {k \in DOMAIN seen : seen[k].zeroArea}
InfAspects   == {k \in DOMAIN aspect_ratios : aspect_ratios[k].inf}

\* C4: a mesh with a triangle index i < 0 or i >= len(points) makes
\* compute_mesh_quality fail before any per-triangle metric is computed, and no
\* report is ever returned for it.
C4_OutOfBoundsFailsFast ==
    (\E k \in DOMAIN seen : seen[k].oob) =>
        /\ qpc # "returned" /\ report = None
        /\ qpc = "IndexError" => areas = <<>>

\* C5: on a mesh with in-bounds indices the area list has one entry per
\* triangle read, the angle list one entry per triangle read without a
\* zero-length edge; a triangle with two coinciding vertices adds area 0 and no
\* angle; so len(angles) <= num_triangles = len(areas) at the return.
C5_AreaPerTriangleAngleUnlessZeroEdge ==
    (InBounds /\ qpc \in {"loop", "returned"}) =>
        /\ Len(seen) = ti
        /\ Len(areas) = ti
        /\ Len(min_angles) = ti - Cardinality(ZeroEdgeTris)
        /\ Len(min_angles) <= ti
        /\ \A k \in ZeroEdgeTris : areas[k] = <<0, 2>>
        /\ qpc = "returned" =>
              /\ ti = numTris
              /\ report[1].num_triangles = Len(areas)
              /\ Len(min_angles) <= report[1].num_triangles

C5_Witness ==
    /\ qpc = "returned" /\ InBounds /\ numTris = 2
    /\ Cardinality(ZeroEdgeTris) = 1
    /\ Len(min_angles) = 1 /\ Len(areas) = 2

\* C6: in the returned report the seven angle buckets sum to the length of the
\* angle list and the seven aspect-ratio buckets to the length of the
\* aspect-ratio list (0 and 0 for a mesh without triangles).
C6_BucketsSumToLength ==
    qpc = "returned" =>
        /\ Len(report[1].angle_dist) = 7 /\ Len(report[1].ar_dist) = 7
        /\ HistTotal(report[1].angle_dist) = Len(min_angles)
        /\ HistTotal(report[1].ar_dist) = Len(aspect_ratios)
        /\ numTris = 0 =>
              (HistTotal(report[1].angle_dist) = 0 /\ HistTotal(report[1].ar_dist) = 0)

C6_Witness ==
    /\ qpc = "returned" /\ numTris = 2
    /\ Len(aspect_ratios) = 2 /\ Cardinality(InfAspects) = 1
    /\ report[1].ar_dist[7] = 1
    /\ HistTotal(report[1].angle_dist) = 2

\* C7: every triangle of zero area (shortest altitude 0), a triangle with two
\* coinciding vertices included, gets the aspect ratio +infinity in the
\* aspect-ratio list, and no error is raised.
C7_ZeroAltitudeIsInfinite ==
    /\ InBounds => qpc # "IndexError"
    /\ (InBounds /\ qpc = "returned") =>
          Cardinality(InfAspects) = Cardinality(ZeroAreaTris)

\* =========================================================================
\* Spec: main(), run_benchmark() and the adapter
\* =========================================================================

\* ---- the command line ----------------------------------------------------

\* values of --sizes as typed, and float(s) for each (type=float); the floats
\* of the model are whole, carried as integers
SizeStrings == {"2", "5.0"}
ParseFloat(s) == CASE s = "2" -> 2 [] s = "5.0" -> 5

\* f'{size}' for a float: repr, which writes a whole float with ".0"
FormatFloat(v) == CASE v = 2 -> "2.0" [] v = 5 -> "5.0"

\* values of --repeats (type=int, not validated)
RepeatArgs == (-1)..MaxRepeats

\* "--sizes" followed by 0..MaxSizes values.  (Without the option the list is
\* the default of seven sizes, which is outside these bounds.)
SizeArgLists == UNION {[1..n -> SizeStrings] : n \in 0..MaxSizes}

\* ---- the battery ---------------------------------------------------------

\* (a slip: the first size for every step of the sweep)
SweepSize_AlwaysFirst(a, k) == a.sizes[1]

\* the loop variable "size" of "for size in args.sizes" at scenario k > 3
SweepSize(a, k) == a.sizes[k - 3]

\* the arguments main() passes to run_benchmark for scenario k, args.repeats
\* apart
ScenarioParams(a, k) ==
    CASE k = 1 -> [outer |-> "unit_square", inner_loops |-> <<>>, maxh |-> None,
                   quality |-> "default", enforce_constraints |-> FALSE]
      [] k = 2 -> [outer |-> "unit_square", inner_loops |-> <<"inner_poly">>, maxh |-> None,
                   quality |-> "default", enforce_constraints |-> TRUE]
      [] k = 3 -> [outer |-> "outer", inner_loops |-> <<"inner_loops">>, maxh |-> <<100>>,
                   quality |-> "moderate", enforce_constraints |-> TRUE]
      [] OTHER -> [outer |-> "outer", inner_loops |-> <<"inner_loops">>,
                   maxh |-> <<SweepSize(a, k)>>,
                   quality |-> "moderate", enforce_constraints |-> TRUE]

\* the 'test' tag, the 'description' and the 'maxh' key of scenario k
TestTag(k) == CASE k = 1 -> "A" [] k = 2 -> "B" [] k = 3 -> "C" [] OTHER -> "D"
Description(a, k) ==
    CASE k = 1 -> <<"unit_square_default", "">>
      [] k = 2 -> <<"unit_square_with_inner", "">>
      [] k = 3 -> <<"city_maxh_", "100">>
      [] OTHER -> <<"city_maxh_", FormatFloat(SweepSize(a, k))>>
MaxhKey(a, k) == IF k <= 3 THEN None ELSE <<SweepSize(a, k)>>

\* the path given to write_vtu for scenario k (relative to outdir)
VtuName(a, k) ==
    CASE k = 1 -> <<"A_unit_square_default", "", ".vtu">>
      [] k = 2 -> <<"B_unit_square_with_inner_polygon", "", ".vtu">>
      [] k = 3 -> <<"C_city_100", "", ".vtu">>
      [] OTHER -> <<"D_city_", FormatFloat(SweepSize(a, k)), ".vtu">>

MetaFile    == <<"meta_", "software", ".json">>
BenchJson   == <<"bench_", "software", ".json">>
BenchCsv    == <<"bench_", "software", ".csv">>
MetricsLog  == <<"metrics_", "software", ".log">>
IsVtu(f)    == f[3] = ".vtu"

\* (a slip: the sweep is never entered)
MoreScenarios_NoSweep(a, k) == k < 3

\* after scenario k: is there another one (B, C, or a next element of the sweep)
MoreScenarios(a, k) == k < 3 \/ k - 3 < Len(a.sizes)

\* ---- the adapter (adapter_spade.triangulate) ------------------------------

SquarePoints == <<<<0, 0, 0>>, <<1, 0, 0>>, <<1, 1, 0>>, <<0, 1, 0>>>>

\* what the CLI can print on success: "points", "triangles" and
\* "constraint_edges"; the second one names a point that does not exist
CliMeshes ==
    { [points |-> SquarePoints, triangles |-> <<<<0, 1, 2>>, <<0, 2, 3>>>>,
       constraint_edges |-> <<>>],
      [points |-> SquarePoints, triangles |-> <<<<0, 1, 4>>>>,
       constraint_edges |-> <<<<0, 1>>>>] }

\* how one run of the CLI under subprocess.run(..., timeout=300) can end
ProcOutcomes ==
    { [kind |-> "timeout"], [kind |-> "exit_nonzero"],
      [kind |-> "not_json"], [kind |-> "missing_key"] } \cup
    { [kind |-> "ok", output |-> m] : m \in CliMeshes }

\* triangulate(): the exception it raises ("" for none) and the tuple it returns
triangulate(out) ==
    CASE out.kind = "timeout"      -> [raises |-> "TimeoutExpired",  value |-> None]
      [] out.kind = "exit_nonzero" -> [raises |-> "RuntimeError",    value |-> None]
      [] out.kind = "not_json"     -> [raises |-> "JSONDecodeError", value |-> None]
      [] out.kind = "missing_key"  -> [raises |-> "KeyError",        value |-> None]
      [] OTHER -> [raises |-> "",
                   value  |-> <<out.output.points, out.output.triangles,
                                out.output.constraint_edges>>]

\* ---- run_benchmark -------------------------------------------------------

ElapsedTimes == 0..MaxElapsed

InfTime     == [inf |-> TRUE,  v |-> 0]     \* float('inf')
Time(e)     == [inf |-> FALSE, v |-> e]
TimeLess(a, b) == ~a.inf /\ (b.inf \/ a.v < b.v)
TimePositive(a) == a.inf \/ a.v > 0

\* (a slip: the time is updated, the result only the first time)
BestUpdate_StaleResult(elapsed, result, bt, br) ==
    IF TimeLess(elapsed, bt)
    THEN [best_time |-> elapsed, best_result |-> IF br = None THEN result ELSE br]
    ELSE [best_time |-> bt, best_result |-> br]

\* if elapsed < best_time: best_time = elapsed; best_result = result
BestUpdate(elapsed, result, bt, br) ==
    IF TimeLess(elapsed, bt)
    THEN [best_time |-> elapsed, best_result |-> result]
    ELSE [best_time |-> bt, best_result |-> br]

\* (a slip: the error is swallowed and the call made again)
OnAdapterError_Retry(e) == [pc |-> "rb_loop", exc |-> ""]

\* an exception raised by adapter_module.triangulate: nothing in run_benchmark
\* or main() catches it
OnAdapterError(e) == [pc |-> "raised", exc |-> e]

\* ---- the steps of main() --------------------------------------------------

\* The state when main() starts on a command line.  (Loading the adapter
\* module and the testcase file, which come before the battery, are taken to
\* succeed.)
InitMain(recording, sizeLists) ==
    /\ QIdle
    /\ pc = "parse"
    /\ argv \in [repeats : RepeatArgs, sizes : sizeLists]
    /\ args = None
    /\ scen = 0 /\ rep = 0
    /\ best_time = InfTime /\ best_result = None
    /\ mesh = None /\ t = InfTime /\ quality = None
    /\ results = <<>> /\ quality_metrics = <<>> /\ files = <<>>
    /\ exc = ""
    /\ rbLog = <<>> /\ calls = 0 /\ failure = None
    /\ probe = recording

Init == InitMain(FALSE, SizeArgLists)

\* the locals of run_benchmark at its entry for scenario k
EnterRunBenchmark(k) ==
    /\ pc' = "rb_loop"
    /\ scen' = k
    /\ rep' = 0
    /\ best_time' = InfTime
    /\ best_result' = None
    /\ rbLog' = <<>>

\* parser.parse_args(): nargs='+' rejects "--sizes" without a value
ParseArgsError ==
    /\ pc = "parse" /\ argv.sizes = <<>>
    /\ pc' = "exit" /\ exc' = "SystemExit"
    /\ UNCHANGED <<argv, args, scen, rep, best_time, best_result, mesh, t, quality,
                   results, quality_metrics, files, rbLog, calls, failure, probe, qVars>>

ParseArgs ==
    /\ pc = "parse" /\ argv.sizes # <<>>
    /\ args' = <<[repeats |-> argv.repeats,
                  sizes   |-> [i \in DOMAIN argv.sizes |-> ParseFloat(argv.sizes[i])]]>>
    /\ pc' = "meta"
    /\ UNCHANGED <<argv, scen, rep, best_time, best_result, mesh, t, quality,
                   results, quality_metrics, files, exc, rbLog, calls, failure, probe, qVars>>

\* the metadata file, results = [], quality_metrics = [], and the call of
\* run_benchmark for test A
WriteMeta ==
    /\ pc = "meta"
    /\ files' = Append(files, MetaFile)
    /\ results' = <<>> /\ quality_metrics' = <<>>
    /\ EnterRunBenchmark(1)
    /\ UNCHANGED <<argv, args, mesh, t, quality, exc, calls, failure, probe, qVars>>

\* one iteration of "for _ in range(repeats)" in which triangulate returns
RbCallReturns ==
    /\ pc = "rb_loop" /\ rep < args[1].repeats
    /\ \E out \in ProcOutcomes, elapsed \in ElapsedTimes :
         LET r == triangulate(out)
             b == BestUpdate(Time(elapsed), r.value, best_time, best_result)
         IN  /\ r.raises = ""
             /\ best_time' = b.best_time
             /\ best_result' = b.best_result
             /\ rbLog' = IF probe
                         THEN Append(rbLog, [params  |-> ScenarioParams(args[1], scen),
                                             elapsed |-> elapsed,
                                             result  |-> r.value])
                         ELSE rbLog
    /\ rep' = rep + 1
    /\ calls' = calls + 1
    /\ UNCHANGED <<pc, argv, args, scen, mesh, t, quality, results, quality_metrics,
                   files, exc, failure, probe, qVars>>

\* one iteration in which triangulate raises
RbCallRaises ==
    /\ pc = "rb_loop" /\ rep < args[1].repeats
    /\ \E out \in ProcOutcomes :
         LET r == triangulate(out)
         IN  /\ r.raises # ""
             /\ pc' = OnAdapterError(r.raises).pc
             /\ exc' = OnAdapterError(r.raises).exc
             /\ failure' = <<[scen |-> scen, rep |-> rep, calls |-> calls + 1,
                              exc |-> r.raises]>>
    /\ calls' = calls + 1
    /\ UNCHANGED <<argv, args, scen, rep, best_time, best_result, mesh, t, quality,
                   results, quality_metrics, files, rbLog, probe, qVars>>

\* the loop is over: "points, triangles, lines = best_result" and the return
RbReturn ==
    /\ pc = "rb_loop" /\ rep >= args[1].repeats
    /\ best_result # None
    /\ mesh' = best_result
    /\ t' = best_time
    /\ pc' = "write_vtu"
    /\ UNCHANGED <<argv, args, scen, rep, best_time, best_result, quality, results,
                   quality_metrics, files, exc, rbLog, calls, failure, probe, qVars>>

\* the loop is over and best_result is still None: the unpacking raises
RbUnpackError ==
    /\ pc = "rb_loop" /\ rep >= args[1].repeats
    /\ best_result = None
    /\ pc' = "raised" /\ exc' = "TypeError"
    /\ UNCHANGED <<argv, args, scen, rep, best_time, best_result, mesh, t, quality,
                   results, quality_metrics, files, rbLog, calls, failure, probe, qVars>>

\* write_vtu(...) for the scenario
WriteVtu ==
    /\ pc = "write_vtu"
    /\ files' = Append(files, VtuName(args[1], scen))
    /\ pc' = "quality"
    /\ UNCHANGED <<argv, args, scen, rep, best_time, best_result, mesh, t, quality,
                   results, quality_metrics, exc, rbLog, calls, failure, probe, qVars>>

\* quality = compute_mesh_quality(points, triangles), returning
Quality ==
    /\ pc = "quality"
    /\ LET r == compute_mesh_quality(mesh[1], mesh[2])
       IN  /\ ~r.raised
           /\ quality' = r.report
    /\ pc' = "append"
    /\ UNCHANGED <<argv, args, scen, rep, best_time, best_result, mesh, t,
                   results, quality_metrics, files, exc, rbLog, calls, failure, probe, qVars>>

\* compute_mesh_quality raises IndexError, which nothing catches
QualityRaises ==
    /\ pc = "quality"
    /\ compute_mesh_quality(mesh[1], mesh[2]).raised
    /\ pc' = "raised" /\ exc' = "IndexError"
    /\ UNCHANGED <<argv, args, scen, rep, best_time, best_result, mesh, t, quality,
                   results, quality_metrics, files, rbLog, calls, failure, probe, qVars>>

\* the tags on quality, the two appends, and what follows: run_benchmark for
\* the next scenario, or the end of the battery
AppendResult ==
    /\ pc = "append"
    /\ quality_metrics' =
         Append(quality_metrics,
                [test |-> TestTag(scen), description |-> Description(args[1], scen),
                 maxh |-> MaxhKey(args[1], scen), report |-> quality[1]])
    /\ results' =
         Append(results,
                [test |-> TestTag(scen), description |-> Description(args[1], scen),
                 maxh |-> MaxhKey(args[1], scen),
                 num_triangles |-> Len(mesh[2]),
                 time_sec |-> t,
                 triangles_per_sec |-> IF TimePositive(t) THEN <<Len(mesh[2]), t.v>>
                                                         ELSE <<0, 1>>])
    /\ IF MoreScenarios(args[1], scen)
       THEN EnterRunBenchmark(scen + 1)
       ELSE /\ pc' = "reports"
            /\ UNCHANGED <<scen, rep, best_time, best_result, rbLog>>
    /\ UNCHANGED <<argv, args, mesh, t, quality, files, exc, calls, failure, probe, qVars>>

\* bench_*.json, bench_*.csv and metrics_*.log, in this order
WriteReports ==
    /\ pc = "reports"
    /\ files' = files \o <<BenchJson, BenchCsv, MetricsLog>>
    /\ pc' = "done"
    /\ UNCHANGED <<argv, args, scen, rep, best_time, best_result, mesh, t, quality,
                   results, quality_metrics, exc, rbLog, calls, failure, probe, qVars>>

Next ==
    \/ ParseArgsError \/ ParseArgs \/ WriteMeta
    \/ RbCallReturns \/ RbCallRaises \/ RbReturn \/ RbUnpackError
    \/ WriteVtu \/ Quality \/ QualityRaises \/ AppendResult \/ WriteReports

Spec == Init /\ [][Next]_vars

\* The same program with every adapter call recorded, on the command lines
\* with at most one size.
InitProbe == InitMain(TRUE, {sz \in SizeArgLists : Len(sz) <= 1})
SpecProbe == InitProbe /\ [][Next]_vars

\* ---- properties of main() and run_benchmark() ----------------------------

VtuWrites  == SelectSeq(files, IsVtu)
Aggregates == {k \in DOMAIN files : files[k] \in {BenchJson, BenchCsv, MetricsLog}}

\* C1: a complete run appends exactly 3 + len(sizes) results, tagged A, B, C,
\* then one D per element of the sweep in the order given, the i-th D carrying
\* maxh = sizes[i]; nothing else is ever appended on the way.
C1_BatteryOrder ==
    /\ Len(quality_metrics) = Len(results)
    /\ \A k \in DOMAIN results :
         /\ k <= 3 + Len(argv.sizes)
         /\ results[k].test = (CASE k = 1 -> "A" [] k = 2 -> "B" [] k = 3 -> "C"
                                 [] OTHER -> "D")
         /\ results[k].maxh = (IF k <= 3 THEN <<>> ELSE <<ParseFloat(argv.sizes[k - 3])>>)
         /\ quality_metrics[k].test = results[k].test
         /\ quality_metrics[k].maxh = results[k].maxh
    /\ pc = "done" => Len(results) = 3 + Len(argv.sizes)

C1_Witness ==
    /\ pc = "done" /\ argv.sizes = <<"5.0", "2">>
    /\ Len(results) = 5
    /\ results[4].maxh = <<5>> /\ results[5].maxh = <<2>>

\* C2: with N >= 1 repeats run_benchmark has called the adapter N times, each
\* time with the same arguments, when it returns; the time it returns is <= the
\* time of every call, and the mesh it returns is the mesh of a call that took
\* exactly that time.
C2_BestOfN ==
    (probe /\ pc = "write_vtu" /\ args[1].repeats >= 1) =>
        /\ Len(rbLog) = args[1].repeats
        /\ \A j \in DOMAIN rbLog :
             /\ rbLog[j].params = rbLog[1].params
             /\ ~t.inf /\ t.v <= rbLog[j].elapsed
        /\ \E j \in DOMAIN rbLog : rbLog[j].elapsed = t.v /\ rbLog[j].result = mesh

C2_Witness ==
    /\ probe /\ pc = "write_vtu" /\ Len(rbLog) = 2
    /\ rbLog[2].elapsed < rbLog[1].elapsed
    /\ rbLog[1].result # rbLog[2].result
    /\ mesh = rbLog[2].result /\ t.v = rbLog[2].elapsed

\* C3: once an adapter call has failed, main() has been left with that very
\* exception, no adapter call has been made since, and the result lists hold
\* the scenarios before the failing one and nothing more.
C3_AdapterFailureAborts ==
    failure # None =>
        /\ pc = "raised"
        /\ exc = failure[1].exc
        /\ calls = failure[1].calls
        /\ rep = failure[1].rep /\ scen = failure[1].scen
        /\ Len(results) = failure[1].scen - 1
        /\ Len(quality_metrics) = failure[1].scen - 1

C3_Witness ==
    /\ failure # None /\ pc = "raised"
    /\ failure[1].scen = 4 /\ failure[1].rep = 1
    /\ exc = "TimeoutExpired" /\ Len(results) = 3

\* C8: no two results of one run carry the same identifier (test tag with
\* description and maxh), and no two scenarios write the same mesh file.
C8_DistinctIdentifiers ==
    /\ \A i, j \in DOMAIN results :
         i # j => <<results[i].test, results[i].description, results[i].maxh>>
                  # <<results[j].test, results[j].description, results[j].maxh>>
    /\ \A i, j \in DOMAIN VtuWrites : i # j => VtuWrites[i] # VtuWrites[j]

\* C9: run_benchmark is never entered from main() with a repeat count < 1.
C9_RepeatsAtLeastOne ==
    pc = "rb_loop" => args[1].repeats >= 1

\* C10: the aggregate reports are written only after the last append; in a
\* scenario the mesh file is written after run_benchmark has returned and
\* before compute_mesh_quality, the append comes last; after a failure in
\* scenario k no aggregate report exists, the metadata file and the mesh files
\* of the scenarios before k do, and the mesh file of k as well when
\* compute_mesh_quality is what failed.
C10_ReportsAfterBattery ==
    /\ Aggregates # {} => (pc = "done" /\ Len(results) = 3 + Len(argv.sizes))
    /\ pc \in {"rb_loop", "write_vtu"} =>
          (Len(results) = scen - 1 /\ Len(VtuWrites) = scen - 1)
    /\ pc \in {"quality", "append"} =>
          (Len(results) = scen - 1 /\ Len(VtuWrites) = scen)
    /\ pc = "raised" =>
          /\ Aggregates = {}
          /\ files[1] = MetaFile
          /\ Len(results) = scen - 1
          /\ Len(VtuWrites) = (IF exc = "IndexError" THEN scen ELSE scen - 1)
    /\ \A k \in DOMAIN VtuWrites : VtuWrites[k] = VtuName(args[1], k)

C10_Witness ==
    /\ pc = "raised" /\ exc = "IndexError" /\ scen = 4
    /\ Len(VtuWrites) = 4 /\ Len(results) = 3 /\ Aggregates = {}

====
